---- MODULE Spec2Model ----
(***************************************************************************)
(* Model of withdrawal_tax_estimator.py (2026 single filer estimator).     *)
(*                                                                         *)
(* Money.  The program computes in floats; the model computes in exact     *)
(* integers.  An amount is a whole number of 1/40 dollar (Dollars(d)), so  *)
(* that 0.5*x and 0.85*x of every amount that arises from whole-dollar     *)
(* inputs are again whole numbers.  A tax is amount * rate-in-percent,     *)
(* i.e. a whole number of 1/4000 dollar (TaxOfCents(c) for c cents of tax),  *)
(* so no division by 100 is needed.                                        *)
(***************************************************************************)
EXTENDS Integers, Sequences, FiniteSets, TLC

Dollars(d) == d * 40

\* c cents of tax, in tax units (1/4000 dollar)
TaxOfCents(c) == c * 40

Max(a, b) == IF a >= b THEN a ELSE b

Min(a, b) == IF a <= b THEN a ELSE b

\* 0.5 * x and 0.85 * x on amounts (exact on the amounts the model uses)
Half(x) == x \div 2

Pct85(x) == (x \div 20) * 17

(***************************************************************************)
(* 2026 single-filer tax parameters                                        *)
(***************************************************************************)
STANDARD_DEDUCTION == Dollars(16100)

\* (upper_bound, marginal_rate); the last bracket has upper None
ORDINARY_BRACKETS ==
    << [has_upper |-> TRUE,  upper |-> Dollars(12400),  rate |-> 10],
       [has_upper |-> TRUE,  upper |-> Dollars(50400),  rate |-> 12],
       [has_upper |-> TRUE,  upper |-> Dollars(105700), rate |-> 22],
       [has_upper |-> TRUE,  upper |-> Dollars(201775), rate |-> 24],
       [has_upper |-> TRUE,  upper |-> Dollars(256225), rate |-> 32],
       [has_upper |-> TRUE,  upper |-> Dollars(640600), rate |-> 35],
       [has_upper |-> FALSE, upper |-> 0,               rate |-> 37] >>

CG_0pct_limit_single == Dollars(49450)

CG_15pct_limit_single == Dollars(545500)

(***************************************************************************)
(* Tax computation helpers                                                 *)
(***************************************************************************)

\* One iteration of the for loop of ordinary_tax_on_amount, at bracket k with
\* the loop variables lower and tax, followed by the rest of the loop.
RECURSIVE ordinary_tax_loop(_, _, _, _)
ordinary_tax_loop(taxable_amount, k, lower, tax) ==
    LET b == ORDINARY_BRACKETS[k]
        taxable_here == IF ~b.has_upper
                        THEN taxable_amount - lower
                        ELSE Max(0, Min(taxable_amount, b.upper) - lower)
        tax2 == IF taxable_here > 0 THEN tax + taxable_here * b.rate ELSE tax
    IN  IF ~b.has_upper \/ taxable_amount <= b.upper
        THEN tax2
        ELSE IF k = Len(ORDINARY_BRACKETS)
             THEN tax2
             ELSE ordinary_tax_loop(taxable_amount, k + 1, b.upper, tax2)

\* Faulty variant: lower is never advanced, so every bracket taxes from 0.
RECURSIVE ordinary_tax_loop_lower_stuck(_, _, _)
ordinary_tax_loop_lower_stuck(taxable_amount, k, tax) ==
    LET b == ORDINARY_BRACKETS[k]
        taxable_here == IF ~b.has_upper
                        THEN taxable_amount
                        ELSE Max(0, Min(taxable_amount, b.upper))
        tax2 == IF taxable_here > 0 THEN tax + taxable_here * b.rate ELSE tax
    IN  IF ~b.has_upper \/ taxable_amount <= b.upper
        THEN tax2
        ELSE IF k = Len(ORDINARY_BRACKETS)
             THEN tax2
             ELSE ordinary_tax_loop_lower_stuck(taxable_amount, k + 1, tax2)

ordinary_tax_lower_stuck(taxable_amount) ==
    IF taxable_amount <= 0 THEN 0
    ELSE ordinary_tax_loop_lower_stuck(taxable_amount, 1, 0)

ordinary_tax_on_amount(taxable_amount) ==
    IF taxable_amount <= 0 THEN 0
    ELSE ordinary_tax_loop(taxable_amount, 1, 0, 0)

\* Faulty variant: the 15% band capacity forgets the amount placed at 0%.
capital_gains_tax_cap15_unshifted(q_amount, ordinary_income_after_deduction) ==
    IF q_amount <= 0 THEN 0
    ELSE
    LET cap0_space == Max(0, CG_0pct_limit_single - ordinary_income_after_deduction)
        take0 == Min(q_amount, cap0_space)
        remaining1 == q_amount - take0
        cap15_space == Max(0, CG_15pct_limit_single - ordinary_income_after_deduction)
        take15 == Min(remaining1, cap15_space)
        remaining2 == remaining1 - take15
    IN  IF remaining2 > 0 THEN take15 * 15 + remaining2 * 20 ELSE take15 * 15

capital_gains_tax_for_qualified(q_amount, ordinary_income_after_deduction) ==
    IF q_amount <= 0 THEN 0
    ELSE
    LET cap0_space == Max(0, CG_0pct_limit_single - ordinary_income_after_deduction)
        take0 == Min(q_amount, cap0_space)
        remaining1 == q_amount - take0
        already == ordinary_income_after_deduction + take0
        cap15_space == Max(0, CG_15pct_limit_single - already)
        take15 == Min(remaining1, cap15_space)
        tax15 == take15 * 15
        remaining2 == remaining1 - take15
    IN  IF remaining2 > 0 THEN tax15 + remaining2 * 20 ELSE tax15

taxable_social_security(ordinary_income, ss_annual) ==
    IF ss_annual <= 0 THEN 0
    ELSE
    LET provisional == ordinary_income + Half(ss_annual)
    IN  IF provisional <= Dollars(25000) THEN 0
        ELSE IF provisional <= Dollars(34000)
             THEN Half(provisional - Dollars(25000))
             ELSE Min(Pct85(ss_annual) - Max(0, Pct85(Dollars(34000) - Dollars(25000))),
                      Pct85(ss_annual))

(***************************************************************************)
(* Python values.  A str is a sequence of one-character strings; an        *)
(* optional value (None, or a missing dict key read with .get) is a record *)
(* [some, v].                                                              *)
(***************************************************************************)
NoneNum == [some |-> FALSE, v |-> 0]

NoneSeq == [some |-> FALSE, v |-> << >>]

Some(x) == [some |-> TRUE, v |-> x]

\* truth value of an optional number / an optional str or dict
truthy_num(o) == o.some /\ o.v # 0

truthy_seq(o) == o.some /\ Len(o.v) > 0

\* a or b, on optional numbers
py_or(a, b) == IF truthy_num(a) THEN a ELSE b

UPPERCASE == << "A", "B", "C", "D", "E", "F", "G", "H", "I", "J", "K", "L", "M",
                "N", "O", "P", "Q", "R", "S", "T", "U", "V", "W", "X", "Y", "Z" >>

LOWERCASE == << "a", "b", "c", "d", "e", "f", "g", "h", "i", "j", "k", "l", "m",
                "n", "o", "p", "q", "r", "s", "t", "u", "v", "w", "x", "y", "z" >>

char_map(c, from, to) ==
    IF \E i \in 1..Len(from) : from[i] = c
    THEN to[CHOOSE i \in 1..Len(from) : from[i] = c]
    ELSE c

str_lower(s) == [i \in 1..Len(s) |-> char_map(s[i], UPPERCASE, LOWERCASE)]

str_upper(s) == [i \in 1..Len(s) |-> char_map(s[i], LOWERCASE, UPPERCASE)]

RECURSIVE str_lstrip(_)
str_lstrip(s) == IF Len(s) > 0 /\ Head(s) = " " THEN str_lstrip(Tail(s)) ELSE s

RECURSIVE str_rstrip(_)
str_rstrip(s) ==
    IF Len(s) > 0 /\ s[Len(s)] = " " THEN str_rstrip(SubSeq(s, 1, Len(s) - 1)) ELSE s

str_strip(s) == str_rstrip(str_lstrip(s))

str_endswith(s, suffix) ==
    Len(s) >= Len(suffix) /\ SubSeq(s, Len(s) - Len(suffix) + 1, Len(s)) = suffix

s_deferred == << "d", "e", "f", "e", "r", "r", "e", "d" >>

s_brokerage == << "b", "r", "o", "k", "e", "r", "a", "g", "e" >>

s_roth == << "r", "o", "t", "h" >>

s_ordinary == << "o", "r", "d", "i", "n", "a", "r", "y" >>

s_qualified == << "q", "u", "a", "l", "i", "f", "i", "e", "d" >>

s_capital_gains ==
    << "c", "a", "p", "i", "t", "a", "l", "_", "g", "a", "i", "n", "s" >>

(***************************************************************************)
(* Cache and data fetching                                                 *)
(***************************************************************************)
CACHE_TTL == 7 * 24 * 3600

\* A dividend history is a sequence of payments [age, amt, ts_ok]: age in
\* months before now, amt per share, ts_ok FALSE for a timestamp that
\* pd.to_datetime coerces to NaT.
RECURSIVE sum_amt(_)
sum_amt(h) == IF Len(h) = 0 THEN 0 ELSE Head(h).amt + sum_amt(Tail(h))

RECURSIVE select_divs(_, _)
select_divs(h, months) ==
    IF Len(h) = 0 THEN << >>
    ELSE IF Head(h).ts_ok /\ Head(h).age < months
         THEN << Head(h) >> \o select_divs(Tail(h), months)
         ELSE select_divs(Tail(h), months)

\* what yfinance answers for a ticker: tk.info (info_ok FALSE when reading it
\* raises) and tk.dividends (NoneSeq when reading it raises)
NoPayments == << >>

VtiPayments ==
    << [age |-> 30, amt |-> Dollars(1), ts_ok |-> TRUE],
       [age |-> 18, amt |-> Dollars(1), ts_ok |-> TRUE],
       [age |-> 9,  amt |-> Dollars(1), ts_ok |-> TRUE],
       [age |-> 6,  amt |-> Dollars(3), ts_ok |-> FALSE],
       [age |-> 3,  amt |-> Dollars(1), ts_ok |-> TRUE] >>

OldPayments == << [age |-> 15, amt |-> Dollars(2), ts_ok |-> TRUE] >>

t_VTI == << "V", "T", "I" >>

t_BND == << "B", "N", "D" >>

t_OLD == << "O", "L", "D" >>

t_SPAXX == << "S", "P", "A", "X", "X" >>

t_NOPX == << "N", "O", "P", "X" >>

t_ZRO == << "Z", "R", "O" >>

t_NEG == << "N", "E", "G" >>

TickerKeys == { t_VTI, t_BND, t_OLD, t_SPAXX, t_NOPX, t_ZRO, t_NEG }

yf_Ticker(ticker) ==
    CASE ticker = t_VTI ->
           [info_ok |-> TRUE, regularMarketPrice |-> Some(Dollars(50)),
            previousClose |-> Some(Dollars(49)), currentPrice |-> NoneNum,
            dividends |-> Some(VtiPayments)]
      [] ticker = t_BND ->
           [info_ok |-> TRUE, regularMarketPrice |-> Some(0),
            previousClose |-> Some(Dollars(100)), currentPrice |-> NoneNum,
            dividends |-> Some(NoPayments)]
      [] ticker = t_OLD ->
           [info_ok |-> TRUE, regularMarketPrice |-> NoneNum,
            previousClose |-> NoneNum, currentPrice |-> Some(Dollars(20)),
            dividends |-> Some(OldPayments)]
      [] ticker = t_NOPX ->
           [info_ok |-> TRUE, regularMarketPrice |-> NoneNum,
            previousClose |-> Some(0), currentPrice |-> NoneNum,
            dividends |-> NoneSeq]
      [] ticker = t_NEG ->
           [info_ok |-> TRUE, regularMarketPrice |-> Some(- Dollars(50)),
            previousClose |-> NoneNum, currentPrice |-> NoneNum,
            dividends |-> Some(NoPayments)]
      [] OTHER ->
           [info_ok |-> FALSE, regularMarketPrice |-> Some(Dollars(10)),
            previousClose |-> NoneNum, currentPrice |-> NoneNum,
            dividends |-> NoneSeq]

fetch_ticker_data(ticker, now) ==
    IF str_endswith(ticker, << "X", "X" >>)
    THEN [present |-> TRUE, price |-> Some(Dollars(1)),
          dividend_history |-> NoneSeq, fetched_time |-> now]
    ELSE LET tk == yf_Ticker(ticker)
             price == IF tk.info_ok
                      THEN py_or(py_or(py_or(tk.regularMarketPrice, tk.previousClose),
                                       tk.currentPrice), NoneNum)
                      ELSE NoneNum
         IN  [present |-> TRUE, price |-> price,
              dividend_history |-> tk.dividends, fetched_time |-> now]

\* get_ticker_info answers the cached record when it is fresh ...
cache_is_fresh(ticker, cache_, force_refresh_, now) ==
    /\ cache_[ticker].present
    /\ ~force_refresh_
    /\ now - cache_[ticker].fetched_time < CACHE_TTL

get_ticker_info(ticker, cache_, force_refresh_, now) ==
    IF cache_is_fresh(ticker, cache_, force_refresh_, now)
    THEN cache_[ticker]
    ELSE fetch_ticker_data(ticker, now)

\* ... and stores what it fetched
cache_after_get(ticker, cache_, force_refresh_, now) ==
    [cache_ EXCEPT ![ticker] = get_ticker_info(ticker, cache_, force_refresh_, now)]

\* Dividend inference (defined by the program, never called by it)
infer_dividend_type(divhist) ==
    IF truthy_seq(divhist) THEN s_qualified ELSE s_ordinary

(***************************************************************************)
(* Inputs of one run                                                       *)
(***************************************************************************)
\* the longest portfolio the model runs
MaxRows == 2

Holding(ticker, account_type, shares, override_yield_pct, dividend_tax_type) ==
    [ticker |-> ticker, account_type |-> account_type, shares |-> shares,
     override_yield_pct |-> override_yield_pct,
     dividend_tax_type |-> dividend_tax_type]

Holdings ==
    { Holding(t_VTI, s_brokerage, 10000, NoneNum, NoneSeq),
      Holding(<< " ", "v", "t", "i", " " >>,
              << " ", "D", "e", "f", "e", "r", "r", "e", "d", " " >>,
              30000, NoneNum, NoneSeq),
      Holding(t_VTI, s_deferred, 10000, NoneNum, Some(s_qualified)),
      Holding(t_SPAXX, s_brokerage, 25000, Some(4), NoneSeq),
      Holding(t_VTI, s_brokerage, 10000, Some(5), NoneSeq),
      Holding(t_VTI, << "R", "O", "T", "H" >>, 10000, NoneNum, Some(s_qualified)),
      Holding(t_VTI, s_brokerage, 20000, Some(5), Some(s_capital_gains)),
      Holding(t_VTI, s_brokerage, 16000, Some(5),
              Some(<< "Q", "u", "a", "l", "i", "f", "i", "e", "d" >>)),
      Holding(t_VTI, << "i", "r", "a" >>, 10000, NoneNum, NoneSeq),
      Holding(t_NOPX, s_brokerage, 100, Some(4), NoneSeq),
      Holding(t_ZRO, s_brokerage, 100000, Some(4), NoneSeq),
      Holding(t_NEG, s_deferred, 100, Some(4), NoneSeq),
      Holding(t_VTI, s_brokerage, -10000, Some(5), NoneSeq),
      Holding(t_BND, s_brokerage, 100, NoneNum, NoneSeq),
      Holding(t_OLD, s_roth, 100, NoneNum, Some(s_ordinary)) }

RowLists == UNION { [1..n -> Holdings] : n \in 0..MaxRows }

NoRecord ==
    [present |-> FALSE, price |-> NoneNum, dividend_history |-> NoneSeq,
     fetched_time |-> 0]

CacheRecord(price, dividend_history, fetched_time) ==
    [present |-> TRUE, price |-> price, dividend_history |-> dividend_history,
     fetched_time |-> fetched_time]

\* the caches load_cache can hand over at time now
Caches(now) ==
    { [t \in TickerKeys |-> NoRecord],
      [t \in TickerKeys |->
         CASE t = t_VTI -> CacheRecord(Some(Dollars(40)), Some(VtiPayments), now - 3600)
           [] t = t_BND -> CacheRecord(Some(Dollars(90)), Some(OldPayments),
                                       now - CACHE_TTL)
           [] t = t_ZRO -> CacheRecord(Some(0), NoneSeq, now - 3600)
           [] t = t_NEG -> CacheRecord(Some(- Dollars(50)), NoneSeq, now - 3600)
           [] OTHER -> NoRecord] }

LtcgInputs == { 0, Dollars(30000), Dollars(600000) }

SocialSecurityInputs == { 0, Dollars(2000) }

(***************************************************************************)
(* State                                                                   *)
(***************************************************************************)
VARIABLES
    rows, loaded_cache, cache, force_refresh, additional_ltcg, social_security_monthly, clock,
    idx, annual_by_account, brokerage_qualified, brokerage_ordinary,
    brokerage_capital_gains, calc_log, pc, error, res,
    call, ret

vars == << rows, loaded_cache, cache, force_refresh, additional_ltcg, social_security_monthly,
           clock, idx, annual_by_account, brokerage_qualified, brokerage_ordinary,
           brokerage_capital_gains, calc_log, pc, error, res, call, ret >>

\* loaded_cache is the cache as the caller passed it in, cache the same dict
\* as the run updates it
inputs == << rows, loaded_cache, force_refresh, additional_ltcg, social_security_monthly, clock >>

buckets == << annual_by_account, brokerage_qualified, brokerage_ordinary,
              brokerage_capital_gains, calc_log >>

NoCall == [fn |-> "none", a |-> 0, b |-> 0]

(***************************************************************************)
(* estimate_with_lookup: one row of the for loop                           *)
(***************************************************************************)
row_ticker(r) == str_upper(str_strip(r.ticker))

row_acct(r) == str_lower(str_strip(r.account_type))

\* price = info.get("price") or 1.0
row_price(info) == IF truthy_num(info.price) THEN info.price.v ELSE Dollars(1)

\* the history kept in the cache (last 2 years) and the trailing 12 months
trimmed_history(info) == select_divs(info.dividend_history.v, 24)

recent_divs(info) == select_divs(trimmed_history(info), 12)

row_yield_pct(r, info) ==
    IF r.override_yield_pct.some
    THEN r.override_yield_pct.v
    ELSE IF ~truthy_seq(info.dividend_history)
         THEN 0
         ELSE IF Len(recent_divs(info)) > 0 /\ row_price(info) > 0
              THEN (sum_amt(recent_divs(info)) * 100) \div row_price(info)
              ELSE 0

row_dividend_tax_type(r) ==
    IF r.override_yield_pct.some
    THEN str_lower(IF truthy_seq(r.dividend_tax_type)
                   THEN r.dividend_tax_type.v ELSE s_ordinary)
    ELSE str_lower(IF truthy_seq(r.dividend_tax_type)
                   THEN r.dividend_tax_type.v ELSE s_qualified)

row_mv(r, info) == r.shares * row_price(info)

row_annual_income(r, info) == (row_mv(r, info) * row_yield_pct(r, info)) \div 100

\* Faulty variant: every account type is let through.
known_account_any(acct, aba) == TRUE

\* line 288: acct in annual_by_account
known_account(acct, aba) == acct \in DOMAIN aba

\* Faulty variant: roth income is routed like brokerage income.
taxed_bucket_roth_leak(acct, dividend_tax_type) ==
    IF acct = s_brokerage \/ acct = s_roth
    THEN IF dividend_tax_type = s_qualified THEN "brokerage_qualified"
         ELSE IF dividend_tax_type = s_capital_gains THEN "brokerage_capital_gains"
         ELSE "brokerage_ordinary"
    ELSE "none"

\* lines 292-298: the brokerage bucket the income is added to, "none" for an
\* account that is not brokerage
taxed_bucket(acct, dividend_tax_type) ==
    IF acct = s_brokerage
    THEN IF dividend_tax_type = s_qualified THEN "brokerage_qualified"
         ELSE IF dividend_tax_type = s_capital_gains THEN "brokerage_capital_gains"
         ELSE "brokerage_ordinary"
    ELSE "none"

\* the cache after the row: the fetched record, and the trimmed history when
\* the yield was computed from it
cache_after_row(r, cache_, force_refresh_, now) ==
    LET ticker == row_ticker(r)
        info == get_ticker_info(ticker, cache_, force_refresh_, now)
        got == cache_after_get(ticker, cache_, force_refresh_, now)
    IN  IF info.price.some /\ ~r.override_yield_pct.some
           /\ truthy_seq(info.dividend_history)
        THEN [got EXCEPT ![ticker].dividend_history = Some(trimmed_history(info))]
        ELSE got

(***************************************************************************)
(* estimate_with_lookup: after the loop                                    *)
(***************************************************************************)
\* Faulty variant: the unused deduction is carried as a negative baseline.
after_deduction_unclamped(taxable_ordinary_with_ss) ==
    taxable_ordinary_with_ss - STANDARD_DEDUCTION

\* line 330: ordinary income after deduction
after_deduction(taxable_ordinary_with_ss) ==
    Max(0, taxable_ordinary_with_ss - STANDARD_DEDUCTION)

\* Faulty variant: capital gains stacked on ordinary income alone.
cg_baseline_unstacked(ordinary_after_deduction, b_qualified) ==
    ordinary_after_deduction

\* line 338: what the capital gains are stacked on
cg_baseline(ordinary_after_deduction, b_qualified) ==
    ordinary_after_deduction + b_qualified

\* a quotient the program computes in floats, kept as numerator and denominator
Ratio(n, d) == [num |-> n, den |-> d]

\* Faulty variant: the quotient is taken without the guard on the denominator.
effective_rate_unguarded(federal_tax, taxable_withdrawals_annual) ==
    Ratio(federal_tax, taxable_withdrawals_annual)

\* line 353: the effective rate, 0.0 when there are no taxable withdrawals
effective_rate_of(federal_tax, taxable_withdrawals_annual) ==
    IF taxable_withdrawals_annual > 0
    THEN Ratio(federal_tax, taxable_withdrawals_annual)
    ELSE Ratio(0, 1)

\* The returned dict.  Amounts are in 1/40 dollar, taxes in 1/4000 dollar;
\* effective_tax_rate_on_taxable_withdrawals is tax over amount, that is the
\* rate in percent.
estimate_result(aba, b_qualified, b_ordinary, b_capital_gains, ss_monthly) ==
    LET total_annual_without_ss ==
            aba[s_deferred] + aba[s_roth] + (aba[s_brokerage] + b_capital_gains)
        ss_annual == ss_monthly * 12
        total_annual == total_annual_without_ss + ss_annual
        taxable_ordinary == aba[s_deferred] + b_ordinary
        ss_taxable == taxable_social_security(taxable_ordinary, ss_annual)
        taxable_ordinary_with_ss == taxable_ordinary + ss_taxable
        magi == taxable_ordinary + b_qualified + b_capital_gains
        ordinary_after_deduction == after_deduction(taxable_ordinary_with_ss)
        ordinary_tax == ordinary_tax_on_amount(ordinary_after_deduction)
        qualified_dividend_tax ==
            capital_gains_tax_for_qualified(b_qualified, ordinary_after_deduction)
        ordinary_plus_q == cg_baseline(ordinary_after_deduction, b_qualified)
        capital_gains_tax_amount ==
            capital_gains_tax_for_qualified(b_capital_gains, ordinary_plus_q)
        capg_tax == qualified_dividend_tax + capital_gains_tax_amount
        federal_tax == ordinary_tax + capg_tax
        taxable_withdrawals_annual ==
            aba[s_deferred] + b_ordinary + b_qualified + b_capital_gains + ss_taxable
        effective_rate == effective_rate_of(federal_tax, taxable_withdrawals_annual)
    IN  [annual_by_account |-> aba,
         brokerage_qualified |-> b_qualified,
         brokerage_ordinary |-> b_ordinary,
         brokerage_capital_gains |-> b_capital_gains,
         social_security_monthly |-> ss_monthly,
         social_security_taxable_annual |-> ss_taxable,
         magi |-> magi,
         total_annual_withdrawal |-> total_annual,
         total_monthly_withdrawal |-> Ratio(total_annual, 12),
         estimated_federal_tax |-> federal_tax,
         effective_tax_rate_on_taxable_withdrawals |-> effective_rate,
         ordinary_after_deduction |-> ordinary_after_deduction,
         ordinary_tax |-> ordinary_tax,
         capital_gains_tax |-> capg_tax,
         standard_deduction_used |-> Min(STANDARD_DEDUCTION, taxable_ordinary_with_ss)]

\* print_tax_bracket_breakdown: the "Computed CG tax" it prints for a result
breakdown_tax_cg(r) ==
    LET ordinary_taxable == r.ordinary_after_deduction
        cg_total == r.brokerage_qualified + r.brokerage_capital_gains
        space0 == Max(0, CG_0pct_limit_single - ordinary_taxable)
        cg0 == Min(cg_total, space0)
        remain == cg_total - cg0
        already == ordinary_taxable + cg0
        cap15 == Max(0, CG_15pct_limit_single - already)
        take15 == Min(remain, cap15)
        remain2 == remain - take15
    IN  IF remain > 0
        THEN take15 * 15 + (IF remain2 > 0 THEN remain2 * 20 ELSE 0)
        ELSE 0

NoResult == [returned |-> FALSE]

(***************************************************************************)
(* The run: estimate_with_lookup(rows, cache, force_refresh,               *)
(*                               additional_ltcg, social_security_monthly) *)
(***************************************************************************)
Init ==
    /\ clock = 4 * CACHE_TTL
    /\ rows \in RowLists
    /\ loaded_cache \in Caches(4 * CACHE_TTL)
    /\ cache = loaded_cache
    /\ force_refresh \in BOOLEAN
    /\ additional_ltcg \in LtcgInputs
    /\ social_security_monthly \in SocialSecurityInputs
    /\ idx = 1
    /\ annual_by_account = [k \in {s_deferred, s_brokerage, s_roth} |-> 0]
    /\ brokerage_qualified = 0
    /\ brokerage_ordinary = 0
    /\ brokerage_capital_gains = additional_ltcg
    /\ calc_log = << >>
    /\ pc = "loop"
    /\ error = "none"
    /\ res = NoResult
    /\ call = NoCall
    /\ ret = 0

\* the record get_ticker_info answers for the current row
cur_info == get_ticker_info(row_ticker(rows[idx]), cache, force_refresh, clock)

\* line 234: the price is None
RaisePrice ==
    /\ pc = "loop"
    /\ idx <= Len(rows)
    /\ ~cur_info.price.some
    /\ cache' = cache_after_row(rows[idx], cache, force_refresh, clock)
    /\ pc' = "raised"
    /\ error' = "RuntimeError"
    /\ UNCHANGED << inputs, idx, buckets, res, call, ret >>

\* line 288: the account type is none of the three
RaiseAccount ==
    /\ pc = "loop"
    /\ idx <= Len(rows)
    /\ cur_info.price.some
    /\ ~known_account(row_acct(rows[idx]), annual_by_account)
    /\ cache' = cache_after_row(rows[idx], cache, force_refresh, clock)
    /\ pc' = "raised"
    /\ error' = "ValueError"
    /\ UNCHANGED << inputs, idx, buckets, res, call, ret >>

ProcessRow ==
    /\ pc = "loop"
    /\ idx <= Len(rows)
    /\ cur_info.price.some
    /\ known_account(row_acct(rows[idx]), annual_by_account)
    /\ LET r == rows[idx]
           acct == row_acct(r)
           dividend_tax_type == row_dividend_tax_type(r)
           annual_income == row_annual_income(r, cur_info)
       IN  /\ annual_by_account' =
                 [annual_by_account EXCEPT ![acct] = @ + annual_income]
           /\ brokerage_qualified' =
                 IF taxed_bucket(acct, dividend_tax_type) = "brokerage_qualified"
                 THEN brokerage_qualified + annual_income
                 ELSE brokerage_qualified
           /\ brokerage_capital_gains' =
                 IF taxed_bucket(acct, dividend_tax_type) = "brokerage_capital_gains"
                 THEN brokerage_capital_gains + annual_income
                 ELSE brokerage_capital_gains
           /\ brokerage_ordinary' =
                 IF taxed_bucket(acct, dividend_tax_type) = "brokerage_ordinary"
                 THEN brokerage_ordinary + annual_income
                 ELSE brokerage_ordinary
           /\ calc_log' = Append(calc_log,
                 [ticker |-> row_ticker(r), mv |-> row_mv(r, cur_info),
                  income |-> annual_income,
                  type |-> IF acct = s_deferred THEN s_ordinary
                           ELSE dividend_tax_type])
    /\ cache' = cache_after_row(rows[idx], cache, force_refresh, clock)
    /\ idx' = idx + 1
    /\ UNCHANGED << inputs, pc, error, res, call, ret >>

\* lines 304-371: the loop is over
Finish ==
    /\ pc = "loop"
    /\ idx > Len(rows)
    /\ res' = estimate_result(annual_by_account, brokerage_qualified,
                              brokerage_ordinary, brokerage_capital_gains,
                              social_security_monthly)
    /\ pc' = "done"
    /\ UNCHANGED << inputs, cache, idx, buckets, error, call, ret >>

Next == RaisePrice \/ RaiseAccount \/ ProcessRow \/ Finish

Spec == Init /\ [][Next]_vars

(***************************************************************************)
(* The tax helpers called on their own                                     *)
(***************************************************************************)
\* no portfolio run: the variables of estimate_with_lookup at rest
NoRun ==
    /\ clock = 0
    /\ rows = << >>
    /\ loaded_cache = [t \in TickerKeys |-> NoRecord]
    /\ cache = loaded_cache
    /\ force_refresh = FALSE
    /\ additional_ltcg = 0
    /\ social_security_monthly = 0
    /\ idx = 1
    /\ annual_by_account = [k \in {s_deferred, s_brokerage, s_roth} |-> 0]
    /\ brokerage_qualified = 0
    /\ brokerage_ordinary = 0
    /\ brokerage_capital_gains = 0
    /\ calc_log = << >>
    /\ error = "none"
    /\ res = NoResult

run_vars == << rows, loaded_cache, cache, force_refresh, additional_ltcg,
               social_security_monthly, clock, idx, annual_by_account,
               brokerage_qualified, brokerage_ordinary, brokerage_capital_gains,
               calc_log, error, res >>

\* ---- taxable_social_security(ordinary_income, ss_annual)
MaxOrdinarySteps == 80

MaxBenefitSteps == 24

SsOrdinaryIncomes ==
    { Dollars(500 * k) : k \in 0..MaxOrdinarySteps } \cup { Dollars(20001) }

SsBenefits ==
    { Dollars(1500 * k) : k \in 0..MaxBenefitSteps } \cup { Dollars(1), Dollars(24001) }

InitSS ==
    /\ NoRun
    /\ pc = "call"
    /\ call \in { [fn |-> "taxable_social_security", a |-> o, b |-> ss] :
                    o \in SsOrdinaryIncomes, ss \in SsBenefits }
    /\ ret = 0

CallTaxableSocialSecurity ==
    /\ pc = "call"
    /\ call.fn = "taxable_social_security"
    /\ ret' = taxable_social_security(call.a, call.b)
    /\ pc' = "returned"
    /\ UNCHANGED << run_vars, call >>

SpecSS == InitSS /\ [][CallTaxableSocialSecurity]_vars

\* ---- capital_gains_tax_for_qualified(q_amount, ordinary_income_after_deduction)
MaxCgOffset == 3

CgBases ==
    { 0, Dollars(20000), Dollars(40000), Dollars(45000), CG_0pct_limit_single,
      CG_15pct_limit_single }

CgAmounts ==
    { x \in { base + Dollars(k) : base \in CgBases, k \in (- MaxCgOffset)..MaxCgOffset } :
        x >= 0 }

InitCG ==
    /\ NoRun
    /\ pc = "call"
    /\ call \in { [fn |-> "capital_gains_tax_for_qualified", a |-> q, b |-> o] :
                    q \in CgAmounts, o \in CgAmounts }
    /\ ret = 0

CallCapitalGainsTax ==
    /\ pc = "call"
    /\ call.fn = "capital_gains_tax_for_qualified"
    /\ ret' = capital_gains_tax_for_qualified(call.a, call.b)
    /\ pc' = "returned"
    /\ UNCHANGED << run_vars, call >>

SpecCG == InitCG /\ [][CallCapitalGainsTax]_vars

\* ---- ordinary_tax_on_amount(taxable_amount)
MaxOrdOffset == 3

MaxOrdGrid == 28

OrdBases ==
    { 0 } \cup { ORDINARY_BRACKETS[k].upper : k \in 1..(Len(ORDINARY_BRACKETS) - 1) }

\* around every bracket bound, in steps of 1/40 dollar and of a dollar, and a
\* coarse grid up to 700,000
OrdAmounts ==
    { x \in { base + k : base \in OrdBases, k \in (- MaxOrdOffset)..MaxOrdOffset }
            \cup { base + Dollars(k) :
                     base \in OrdBases, k \in (- MaxOrdOffset)..MaxOrdOffset }
            \cup { Dollars(25000 * k) : k \in 0..MaxOrdGrid } :
        x >= 0 }

InitOrd ==
    /\ NoRun
    /\ pc = "call"
    /\ call \in { [fn |-> "ordinary_tax_on_amount", a |-> x, b |-> 0] :
                    x \in OrdAmounts }
    /\ ret = 0

CallOrdinaryTax ==
    /\ pc = "call"
    /\ call.fn = "ordinary_tax_on_amount"
    /\ ret' = ordinary_tax_on_amount(call.a)
    /\ pc' = "returned"
    /\ UNCHANGED << run_vars, call >>

SpecOrd == InitOrd /\ [][CallOrdinaryTax]_vars

\* ---- the tax engine (lines 304-371 of estimate_with_lookup) on given buckets
MaxDeferredSteps == 15

MaxMonthlySteps == 8

EngineBuckets ==
    { [deferred |-> Dollars(4000 * k), roth |-> ro, brokerage_ordinary |-> bo,
       brokerage_qualified |-> bq, brokerage_capital_gains |-> bcg] :
        k \in 0..MaxDeferredSteps,
        ro \in { 0, Dollars(20000) },
        bo \in { 0, Dollars(1000) },
        bq \in { 0, Dollars(20000), Dollars(600000) },
        bcg \in { 0, Dollars(30000), Dollars(600000) } }

EngineMonthlyBenefits == { Dollars(250 * k) : k \in 0..MaxMonthlySteps }

InitEngine ==
    /\ NoRun
    /\ pc = "call"
    /\ call \in { [fn |-> "estimate_result", a |-> b, b |-> ss] :
                    b \in EngineBuckets, ss \in EngineMonthlyBenefits }
    /\ ret = 0

CallEstimateResult ==
    /\ pc = "call"
    /\ call.fn = "estimate_result"
    /\ ret' = estimate_result(
                 [k \in {s_deferred, s_brokerage, s_roth} |->
                    IF k = s_deferred THEN call.a.deferred
                    ELSE IF k = s_roth THEN call.a.roth
                    ELSE call.a.brokerage_ordinary + call.a.brokerage_qualified],
                 call.a.brokerage_qualified, call.a.brokerage_ordinary,
                 call.a.brokerage_capital_gains, call.b)
    /\ pc' = "returned"
    /\ UNCHANGED << run_vars, call >>

SpecEngine == InitEngine /\ [][CallEstimateResult]_vars

(***************************************************************************)
(* Properties                                                              *)
(***************************************************************************)

\* C1: for ordinary_income >= 0 and ss_annual > 0, with provisional =
\* ordinary_income + 0.5*ss_annual, taxable_social_security returns 0 when
\* provisional <= 25,000, 0.5*(provisional - 25,000) when 25,000 < provisional
\* <= 34,000, and min(0.85*ss_annual, 0.85*(provisional - 34,000) + 0.5*9,000)
\* when provisional > 34,000; it returns 0 when ss_annual = 0.
C1_TaxableSocialSecurityTiers ==
    (pc = "returned" /\ call.fn = "taxable_social_security") =>
        LET ss_annual == call.b
            provisional == call.a + Half(ss_annual)
        IN  ret = IF ss_annual = 0 THEN 0
                  ELSE IF provisional <= Dollars(25000) THEN 0
                  ELSE IF provisional <= Dollars(34000)
                       THEN Half(provisional - Dollars(25000))
                       ELSE Min(Pct85(ss_annual),
                                Pct85(provisional - Dollars(34000))
                                  + Half(Dollars(9000)))

\* C2: for q >= 0 and after-deduction ordinary income b >= 0,
\* capital_gains_tax_for_qualified(q, b) places take0 = min(q, max(0, 49,450 - b))
\* at 0%, take15 = min(q - take0, max(0, 545,500 - (b + take0))) at 15% and the
\* remainder at 20%, so the tax is 0.15*take15 + 0.20*(q - take0 - take15);
\* q = 40,000 on b = 0 gives 0.00 and q = 20,000 on b = 45,000 gives 2,332.50.
C2_ThreeBandFill ==
    (pc = "returned" /\ call.fn = "capital_gains_tax_for_qualified") =>
        LET q == call.a
            b == call.b
            take0 == Min(q, Max(0, Dollars(49450) - b))
            take15 == Min(q - take0, Max(0, Dollars(545500) - (b + take0)))
        IN  /\ ret = 15 * take15 + 20 * (q - take0 - take15)
            /\ (q = Dollars(40000) /\ b = 0) => ret = 0
            /\ (q = Dollars(20000) /\ b = Dollars(45000)) => ret = TaxOfCents(233250)

\* C2 witness: a call whose amount is spread over all three bands
C2_Witness ==
    /\ pc = "returned"
    /\ call.fn = "capital_gains_tax_for_qualified"
    /\ call.b > 0
    /\ call.b < CG_0pct_limit_single
    /\ call.a + call.b > CG_15pct_limit_single
    /\ ret > 15 * (CG_15pct_limit_single - CG_0pct_limit_single)

\* the slice of x inside bracket k
bracket_lower(k) == IF k = 1 THEN 0 ELSE ORDINARY_BRACKETS[k - 1].upper

bracket_slice(x, k) ==
    IF ORDINARY_BRACKETS[k].has_upper
    THEN Max(0, Min(x, ORDINARY_BRACKETS[k].upper) - bracket_lower(k))
    ELSE Max(0, x - bracket_lower(k))

RECURSIVE slice_tax_sum(_, _)
slice_tax_sum(x, k) ==
    IF k = 0 THEN 0
    ELSE bracket_slice(x, k) * ORDINARY_BRACKETS[k].rate + slice_tax_sum(x, k - 1)

\* the marginal rate of the bracket that holds amount y > 0
marginal_rate(y) ==
    ORDINARY_BRACKETS[CHOOSE k \in 1..Len(ORDINARY_BRACKETS) :
                        /\ bracket_lower(k) < y
                        /\ (ORDINARY_BRACKETS[k].has_upper
                              => y <= ORDINARY_BRACKETS[k].upper)].rate

\* C4: ordinary_tax_on_amount(x) is non-decreasing in x >= 0, taxes each bracket
\* only on the slice of x inside its bounds at that bracket's marginal rate, and
\* at every bracket upper bound (12,400; 50,400; 105,700; 201,775; 256,225;
\* 640,600) equals exactly the sum of the fully filled lower brackets; no slice
\* is taxed twice and there is no jump at a boundary.
C4_OrdinaryTaxProgressive ==
    (pc = "returned" /\ call.fn = "ordinary_tax_on_amount") =>
        LET x == call.a
        IN  /\ \A y \in OrdAmounts : y <= x => ordinary_tax_on_amount(y) <= ret
            /\ ret = slice_tax_sum(x, Len(ORDINARY_BRACKETS))
            /\ x = Dollars(12400) => ret = TaxOfCents(124000)
            /\ x = Dollars(50400) => ret = TaxOfCents(580000)
            /\ x = Dollars(105700) => ret = TaxOfCents(1796600)
            /\ x = Dollars(201775) => ret = TaxOfCents(4102400)
            /\ x = Dollars(256225) => ret = TaxOfCents(5844800)
            /\ x = Dollars(640600) => ret = TaxOfCents(19297925)
            /\ ordinary_tax_on_amount(x + 1) - ret = marginal_rate(x + 1)

\* C4 witness: the tax at the top bound, with every lower bracket filled
C4_Witness ==
    /\ pc = "returned"
    /\ call.fn = "ordinary_tax_on_amount"
    /\ call.a = ORDINARY_BRACKETS[6].upper
    /\ ret = TaxOfCents(19297925)

\* ---- helpers of the properties of a run

\* the income of the processed rows whose index is in S
RECURSIVE income_of(_)
income_of(S) ==
    IF S = {} THEN 0
    ELSE LET i == CHOOSE i \in S : TRUE
         IN  calc_log[i].income + income_of(S \ {i})

rows_where(acct, types) ==
    { i \in 1..Len(rows) :
        row_acct(rows[i]) = acct /\ row_dividend_tax_type(rows[i]) \in types }

rows_of(acct) == { i \in 1..Len(rows) : row_acct(rows[i]) = acct }

\* the three-band tax of amount q stacked on b, as the specification states it
three_band_tax(q, b) ==
    LET take0 == Min(q, Max(0, Dollars(49450) - b))
        take15 == Min(q - take0, Max(0, Dollars(545500) - (b + take0)))
    IN  15 * take15 + 20 * (q - take0 - take15)

all_buckets_non_negative ==
    /\ annual_by_account[s_deferred] >= 0
    /\ annual_by_account[s_roth] >= 0
    /\ brokerage_ordinary >= 0
    /\ brokerage_qualified >= 0
    /\ brokerage_capital_gains >= 0

\* C3: in estimate_with_lookup the capital-gains tax is the three-band fill on
\* the baseline ordinary_after_deduction + brokerage_qualified, where
\* brokerage_capital_gains is the flat additional LTCG plus all brokerage income
\* typed capital_gains; so for non-negative buckets qualified-dividend tax +
\* capital-gains tax equals the three-band tax of brokerage_qualified +
\* brokerage_capital_gains stacked on ordinary_after_deduction (the amount the
\* bracket breakdown prints as computed CG tax).
C3_CapitalGainsStackedOnQualified ==
    (pc = "done" /\ all_buckets_non_negative) =>
        LET q == res.brokerage_qualified
            cg == res.brokerage_capital_gains
            oad == res.ordinary_after_deduction
        IN  /\ cg = additional_ltcg
                      + income_of(rows_where(s_brokerage, {s_capital_gains}))
            /\ res.capital_gains_tax
                 = three_band_tax(q, oad) + three_band_tax(cg, oad + q)
            /\ res.capital_gains_tax = three_band_tax(q + cg, oad)
            /\ res.capital_gains_tax = breakdown_tax_cg(res)

\* C3 witness: qualified dividends, a holding typed capital_gains and a flat
\* LTCG that together reach the 20% band
C3_Witness ==
    /\ pc = "done"
    /\ all_buckets_non_negative
    /\ res.brokerage_qualified > 0
    /\ additional_ltcg > 0
    /\ income_of(rows_where(s_brokerage, {s_capital_gains})) > 0
    /\ res.ordinary_after_deduction + res.brokerage_qualified < CG_0pct_limit_single
    /\ res.ordinary_after_deduction + res.brokerage_qualified
         + res.brokerage_capital_gains > CG_15pct_limit_single

\* C5: the standard deduction is applied once and only against ordinary income:
\* ordinary_after_deduction = max(0, deferred_ordinary + brokerage_ordinary +
\* taxable_SS - 16,100), and when ordinary taxable income is below the deduction
\* the qualified-dividend and capital-gains taxes are exactly those computed
\* with an ordinary baseline of 0.
C5_DeductionOnlyAgainstOrdinary ==
    pc = "done" =>
        LET ordinary_taxable == res.annual_by_account[s_deferred]
                                  + res.brokerage_ordinary
                                  + res.social_security_taxable_annual
        IN  /\ res.ordinary_after_deduction
                 = Max(0, ordinary_taxable - Dollars(16100))
            /\ res.ordinary_tax = ordinary_tax_on_amount(res.ordinary_after_deduction)
            /\ ordinary_taxable < Dollars(16100) =>
                 res.capital_gains_tax
                   = capital_gains_tax_for_qualified(res.brokerage_qualified, 0)
                     + capital_gains_tax_for_qualified(res.brokerage_capital_gains,
                                                       0 + res.brokerage_qualified)

\* C5 witness: ordinary income below the deduction next to taxed preferential
\* income
C5_Witness ==
    /\ pc = "done"
    /\ res.annual_by_account[s_deferred] + res.brokerage_ordinary > 0
    /\ res.annual_by_account[s_deferred] + res.brokerage_ordinary
         + res.social_security_taxable_annual < STANDARD_DEDUCTION
    /\ res.brokerage_qualified > 0
    /\ res.capital_gains_tax > 0

\* C6: without a dividend_tax_type override the tax type of a holding is
\* inferred from its dividend history alone (non-empty history: "qualified", no
\* history: "ordinary"), whether or not a yield override is present; an
\* explicit dividend_tax_type always wins.  Stated on the type the run reports
\* for a holding that is not in a deferred account.
C6_TypeInferredFromHistory ==
    [][ (pc = "loop" /\ Len(calc_log') = Len(calc_log) + 1
           /\ row_acct(rows[idx]) # s_deferred)
        => calc_log'[Len(calc_log')].type
             = IF rows[idx].dividend_tax_type.some
               THEN str_lower(rows[idx].dividend_tax_type.v)
               ELSE infer_dividend_type(cur_info.dividend_history) ]_vars

\* C8: a holding whose price does not resolve to a positive number (absent,
\* zero or negative) makes the run fail; no default price is substituted and
\* no result is returned.
C8_NonPositivePriceRaises ==
    [][ (pc = "loop" /\ idx <= Len(rows)
           /\ ~(cur_info.price.some /\ cur_info.price.v > 0))
        => pc' = "raised" ]_vars

\* C9: a negative bucket amount is surfaced as an error: every run either
\* returns deferred, brokerage ordinary, brokerage qualified, brokerage
\* capital-gains and roth amounts that are all >= 0, or raises.
C9_NoNegativeBucketReturned ==
    pc = "done" =>
        /\ res.annual_by_account[s_deferred] >= 0
        /\ res.annual_by_account[s_roth] >= 0
        /\ res.brokerage_ordinary >= 0
        /\ res.brokerage_qualified >= 0
        /\ res.brokerage_capital_gains >= 0

\* the loop of estimate_with_lookup run as a whole on a list of rows rs, from
\* the cache cache_ and the buckets acc; ok is FALSE when a row raises
RECURSIVE run_rows(_, _, _)
run_rows(rs, cache_, acc) ==
    IF Len(rs) = 0 THEN acc
    ELSE LET r == Head(rs)
             info == get_ticker_info(row_ticker(r), cache_, force_refresh, clock)
             acct == row_acct(r)
             income == row_annual_income(r, info)
             bucket == taxed_bucket(acct, row_dividend_tax_type(r))
         IN  IF ~info.price.some \/ ~known_account(acct, acc.aba)
             THEN [acc EXCEPT !.ok = FALSE]
             ELSE run_rows(Tail(rs),
                           cache_after_row(r, cache_, force_refresh, clock),
                           [ok |-> acc.ok,
                            aba |-> [acc.aba EXCEPT ![acct] = @ + income],
                            bq  |-> IF bucket = "brokerage_qualified"
                                    THEN acc.bq + income ELSE acc.bq,
                            bo  |-> IF bucket = "brokerage_ordinary"
                                    THEN acc.bo + income ELSE acc.bo,
                            bcg |-> IF bucket = "brokerage_capital_gains"
                                    THEN acc.bcg + income ELSE acc.bcg])

not_roth(r) == row_acct(r) # s_roth

\* the result of the same run on the portfolio without its roth holdings
result_without_roth ==
    LET b == run_rows(SelectSeq(rows, not_roth), loaded_cache,
                      [ok |-> TRUE,
                       aba |-> [k \in {s_deferred, s_brokerage, s_roth} |-> 0],
                       bq |-> 0, bo |-> 0, bcg |-> additional_ltcg])
    IN  [ok |-> b.ok,
         res |-> estimate_result(b.aba, b.bq, b.bo, b.bcg, social_security_monthly)]

\* C7: each holding's annual income goes to exactly one bucket chosen by
\* (account_type, dividend_tax_type): roth income is in no taxed amount (the
\* federal tax and the taxable Social Security are those of the portfolio
\* without its roth holdings), deferred income is ordinary-taxed whatever its
\* dividend_tax_type, brokerage income goes to qualified, to capital gains or
\* else to ordinary.
C7_IncomeRouting ==
    pc = "done" =>
        LET all_types == { row_dividend_tax_type(rows[i]) : i \in 1..Len(rows) }
            other == all_types \ {s_qualified, s_capital_gains}
            taxable_ordinary == income_of(rows_of(s_deferred))
                                  + income_of(rows_where(s_brokerage, other))
        IN  /\ res.annual_by_account[s_roth] = income_of(rows_of(s_roth))
            /\ res.annual_by_account[s_deferred] = income_of(rows_of(s_deferred))
            /\ res.annual_by_account[s_brokerage] = income_of(rows_of(s_brokerage))
            /\ res.brokerage_qualified
                 = income_of(rows_where(s_brokerage, {s_qualified}))
            /\ res.brokerage_capital_gains
                 = additional_ltcg
                   + income_of(rows_where(s_brokerage, {s_capital_gains}))
            /\ res.brokerage_ordinary = income_of(rows_where(s_brokerage, other))
            /\ res.social_security_taxable_annual
                 = taxable_social_security(taxable_ordinary,
                                           social_security_monthly * 12)
            /\ res.ordinary_tax
                 = ordinary_tax_on_amount(
                     Max(0, taxable_ordinary + res.social_security_taxable_annual
                              - STANDARD_DEDUCTION))
            /\ result_without_roth.ok
            /\ res.estimated_federal_tax
                 = result_without_roth.res.estimated_federal_tax
            /\ res.social_security_taxable_annual
                 = result_without_roth.res.social_security_taxable_annual

\* C7 witness: a roth holding and a deferred holding, both typed qualified and
\* both with income, in a run that owes tax
C7_Witness ==
    /\ pc = "done"
    /\ \E i \in rows_where(s_roth, {s_qualified}) : calc_log[i].income > 0
    /\ \E i \in rows_where(s_deferred, {s_qualified}) : calc_log[i].income > 0
    /\ res.estimated_federal_tax > 0

\* C10: a holding whose account_type, trimmed and lower-cased, is none of
\* deferred, brokerage, roth makes the run raise wherever it sits in the list:
\* the loop never gets past it, none of its income reaches a bucket, and no
\* result is returned.
C10_UnknownAccountRaises ==
    /\ [](\A i \in 1..Len(rows) :
            row_acct(rows[i]) \notin {s_deferred, s_brokerage, s_roth} =>
                /\ pc # "done"
                /\ res = NoResult
                /\ idx <= i
                /\ Len(calc_log) < i
                /\ annual_by_account[s_deferred] + annual_by_account[s_brokerage]
                     + annual_by_account[s_roth] = income_of(1..Len(calc_log))
                /\ brokerage_ordinary + brokerage_qualified + brokerage_capital_gains
                     = additional_ltcg
                       + income_of(rows_of(s_brokerage) \cap 1..Len(calc_log)))
    /\ [][ (pc = "loop" /\ idx <= Len(rows)
              /\ row_acct(rows[idx]) \notin {s_deferred, s_brokerage, s_roth})
           => (pc' = "raised" /\ error' \in {"ValueError", "RuntimeError"}
                 /\ UNCHANGED << buckets, res >>) ]_vars

\* C10 witness: the unknown account type in second place, after a holding
\* whose income was added
C10_Witness ==
    /\ pc = "raised"
    /\ error = "ValueError"
    /\ idx = 2
    /\ Len(calc_log) = 1
    /\ calc_log[1].income > 0
    /\ row_acct(rows[1]) = s_deferred
    /\ annual_by_account[s_deferred] = calc_log[1].income

\* C11: for all non-negative income buckets and every Social Security amount
\* >= 0 the effective rate (total federal tax over deferred + brokerage
\* ordinary + brokerage qualified + brokerage capital gains + taxable SS, roth
\* excluded) lies in [0, 1], and it is exactly 0, with no division, when that
\* denominator is 0.  (A Ratio is tax over amount, the rate in percent: the
\* rate is at most 1 when num <= 100 * den.)
C11_EffectiveRateInUnitInterval ==
    (pc = "returned" /\ call.fn = "estimate_result") =>
        LET rate == ret.effective_tax_rate_on_taxable_withdrawals
            denominator == call.a.deferred + call.a.brokerage_ordinary
                             + call.a.brokerage_qualified
                             + call.a.brokerage_capital_gains
                             + ret.social_security_taxable_annual
        IN  /\ rate.den > 0
            /\ rate.num >= 0
            /\ (rate.num + 99) \div 100 <= rate.den
            /\ denominator > 0 =>
                 rate = Ratio(ret.estimated_federal_tax, denominator)
            /\ denominator = 0 => rate.num = 0

\* C11 witness: roth income and a Social Security benefit but nothing taxable,
\* so the denominator is 0
C11_Witness ==
    /\ pc = "returned"
    /\ call.fn = "estimate_result"
    /\ call.a.roth > 0
    /\ call.b > 0
    /\ call.a.deferred + call.a.brokerage_ordinary + call.a.brokerage_qualified
         + call.a.brokerage_capital_gains + ret.social_security_taxable_annual = 0
    /\ ret.effective_tax_rate_on_taxable_withdrawals.num = 0

\* C12: for every ordinary_income >= 0 and ss_annual >= 0, in all three
\* provisional-income tiers, the amount taxable_social_security returns is
\* between 0 and 0.85*ss_annual inclusive: never negative and never more than
\* 85% of the benefit.
C12_TaxableSocialSecurityBounded ==
    (pc = "returned" /\ call.fn = "taxable_social_security") =>
        /\ ret >= 0
        /\ ret <= Pct85(call.b)

\* C13: in the result, total_annual_withdrawal counts every dollar of income
\* exactly once: it is the sum of annual_income over all holdings +
\* additional_ltcg + 12*social_security_monthly, also when a brokerage holding
\* is typed capital_gains; total_monthly_withdrawal is that total over 12.
C13_TotalCountsIncomeOnce ==
    pc = "done" =>
        LET total == income_of(1..Len(rows)) + additional_ltcg
                       + 12 * social_security_monthly
        IN  /\ res.total_annual_withdrawal = total
            /\ res.total_monthly_withdrawal = Ratio(total, 12)

====
